---- MODULE Spec2Model ----
(***************************************************************************)
(* Model of the streaming pipeline of bot/utils/stream_processor.py:       *)
(* process_video_stream composes the source generator stream_from_telegram,*)
(* the generator process_with_ffmpeg (child process, feeder task feed_input*)
(* and the output read loop) and the consumer send_processed_video.        *)
(*                                                                         *)
(* Byte counts are in KiB (the code counts bytes; every size the model     *)
(* uses is a multiple of 1 KiB), so that 2 GiB stays inside TLC's integers.*)
(* One action is one stretch of code between two suspension points of the  *)
(* event loop.  The child process and the network are the environment.     *)
(***************************************************************************)
EXTENDS Integers, Sequences, FiniteSets, TLC

\* ---------------------------------------------------------------- bounds
MaxChunks == 2        \* most chunks the source yields
MaxOut == 2           \* most chunks the child process writes to stdout
StdoutCap == 1        \* chunks the stdout pipe holds before the child blocks
StderrCap == 1        \* blocks of diagnostics the stderr pipe and its
                      \*   StreamReader hold before the child blocks
TickSeconds == 150    \* wall-clock seconds that pass in one Tick
MaxSeconds == 6       \* seconds the clock of a progress tracker runs

\* ------------------------------------------------------- program constants
chunk_size == 1024                    \* 1 MiB, in KiB
max_file_size == 2 * 1024 * 1024      \* 2 GiB, in KiB
processing_timeout == 300             \* seconds
update_interval == 5                  \* seconds, progress_tracker.py line 19

\* declared sizes (message.video.file_size) the runs are started with
DeclaredSizes == {0, chunk_size, max_file_size, max_file_size + 1}

\* text the child process may leave on its diagnostic channel
Diags == {"", "bad codec", "65 KiB of warnings"}

\* size in KiB of a text of the diagnostic channel
DiagSize(text) ==
    IF text = "" THEN 0 ELSE IF text = "65 KiB of warnings" THEN 65 ELSE 1

VARIABLES
    file_size,      \* message.video.file_size
    srcLen,         \* number of chunks client.stream_media will yield
    hasCallback,    \* progress_callback is not None
    srcState,       \* stream_from_telegram: "unopened","open","exhausted","failed"
    srcPos,         \* chunks yielded by the source so far
    feedPc,         \* feed_task: "none","pull","progress","done","failed"
    feedErr,        \* message of the exception feed_task holds
    total_bytes,    \* feed_input's total_bytes
    proc,           \* child: "none","spawnfailed","running","exited","killed"
    returncode,     \* process.returncode (-1 models None)
    diag,           \* text on the child's stderr
    stdinBuf,       \* chunks written to process.stdin, not yet consumed
    stdinClosed,    \* process.stdin.close() was called
    stdoutPipe,     \* chunks the child wrote to stdout, not yet read
    stdoutOpen,     \* the child still holds its stdout open
    emitted,        \* chunks the child wrote to stdout so far
    genPc,          \* process_with_ffmpeg: "init","read","progress","join",
                    \*   "wait","finished","raised","suspended","closed"
    output_bytes,   \* process_with_ffmpeg's output_bytes
    drainEof,       \* the read loop of lines 70-77 ended at end of stream
    tempFile,       \* send_processed_video's temp file: "none","exists","removed"
    sinkChunks,     \* chunks written to the temp file
    replyCalled,    \* message.reply_video was called
    sendPc,         \* send_processed_video: "start","consuming","replying","returned","raised"
    result,         \* what process_video_stream returned or raised
    elapsed,        \* seconds since the run started (saturating)
    waitElapsed,    \* seconds since wait_for(process.wait()) started (saturating)
    killRaised,     \* a process.kill() of lines 96/100 raised ProcessLookupError
    written,        \* chunks passed to process.stdin.write, in call order
    closeCount,     \* calls of process.stdin.close()
    readChunks,     \* chunks returned by process.stdout.read, in order
    failKind,       \* which failure ended the run ("" while there is none)
    exitedEarly,    \* the child exited before it had read the end of its input
    total_input_bytes,  \* ProgressTracker.total_input_bytes of the callback
    total_output_bytes, \* ProgressTracker.total_output_bytes of the callback
    stderrFill,     \* blocks the child wrote to stderr that nothing has read
    stderrBlocked,  \* the child is blocked in a write to its full stderr
    user_encoding_states,  \* encode.py: user id -> session
    user_audio_states,     \* audio.py: user id -> session
    user_subtitle_states,  \* subtitle.py: user id -> session
    subtitle_files, \* paths of the temporary subtitle files on disk
    created,        \* temporary subtitle files created so far
    runs,           \* the handlers' pipeline runs that have not finished
    handled,        \* the message the last step handled
    video_processor,  \* the module's VideoStreamProcessor instance
    streams,        \* concurrent calls of process_video_stream
    now,            \* time.time(), in seconds since the tracker was made
    last_update_time,  \* ProgressTracker.last_update_time
    progress_message,  \* ProgressTracker.progress_message: "None","sent"
    lastEdit,       \* time of the last edit_text that succeeded (None: none)
    editGap         \* seconds between the edit the last step made and the
                    \*   edit before it (None: no edit, or no edit before)

vars == <<file_size, srcLen, hasCallback, srcState, srcPos, feedPc, feedErr,
          total_bytes, proc, returncode, diag, stdinBuf, stdinClosed,
          stdoutPipe, stdoutOpen, emitted, genPc, output_bytes, drainEof,
          tempFile,
          sinkChunks, replyCalled, sendPc, result, elapsed, waitElapsed,
          killRaised, written, closeCount, readChunks, failKind, exitedEarly,
          total_input_bytes, total_output_bytes, stderrFill, stderrBlocked,
          user_encoding_states, user_audio_states, user_subtitle_states,
          subtitle_files, created, runs, handled, video_processor,
          streams, now, last_update_time, progress_message, lastEdit,
          editGap>>

srcVars == <<srcState, srcPos>>
feedVars == <<feedPc, feedErr, total_bytes>>
procVars == <<proc, returncode, diag, stdoutOpen>>
pipeInVars == <<stdinBuf, stdinClosed>>
pipeOutVars == <<stdoutPipe, emitted>>
sendVars == <<tempFile, sinkChunks, replyCalled, sendPc, result>>
inputVars == <<file_size, srcLen, hasCallback>>
clockVars == <<elapsed, waitElapsed>>
histVars == <<drainEof>>
ghostVars == <<killRaised, written, closeCount, readChunks, failKind, exitedEarly>>
trackerVars == <<total_input_bytes, total_output_bytes>>
stderrVars == <<stderrFill, stderrBlocked>>
sessionVars == <<user_encoding_states, user_audio_states,
                 user_subtitle_states, subtitle_files, created, runs,
                 handled>>
streamVars == <<video_processor, streams>>
handlerVars == <<sessionVars, streamVars>>
messageVars == <<now, last_update_time, progress_message, lastEdit, editGap>>
runVars == <<srcVars, feedVars, procVars, pipeInVars, pipeOutVars,
             sendVars, inputVars, clockVars, histVars, ghostVars,
             stderrVars, genPc, output_bytes>>
pipelineVars == <<runVars, trackerVars, messageVars>>

\* the value None of an argument or a field that is not given
None == -1

Min(a, b) == IF a < b THEN a ELSE b

Range(s) == {s[i] : i \in 1..Len(s)}

\* An exception message is the sequence of its parts; f"{prefix}: {str(e)}"
\* puts the prefix in front of the parts of e.
Wrap(prefix, msg) == <<prefix>> \o msg

Running == [status |-> "running", msg |-> <<>>]
Success == [status |-> "success", msg |-> <<>>]
Failure(msg) == [status |-> "failure", msg |-> msg]

Ended == result.status # "running"

\* stream_processor.py line 144: the instance every call shares
VideoStreamProcessor ==
    [chunk_size |-> chunk_size, max_file_size |-> max_file_size,
     processing_timeout |-> processing_timeout]

\* the handlers' modules as loaded: no session, no run, no file
HandlersIdle ==
    /\ user_encoding_states = <<>>
    /\ user_audio_states = <<>>
    /\ user_subtitle_states = <<>>
    /\ subtitle_files = {}
    /\ created = 0
    /\ runs = <<>>
    /\ handled = [user |-> "", by |-> "", command |-> <<>>, error |-> ""]
    /\ video_processor = VideoStreamProcessor
    /\ streams = <<>>

\* one call of process_video_stream, not started
PipelineIdle ==
    /\ srcState = "unopened"
    /\ srcPos = 0
    /\ feedPc = "none"
    /\ feedErr = <<>>
    /\ total_bytes = 0
    /\ proc = "none"
    /\ returncode = -1
    /\ diag = ""
    /\ stdinBuf = <<>>
    /\ stdinClosed = FALSE
    /\ stdoutPipe = <<>>
    /\ stdoutOpen = FALSE
    /\ emitted = 0
    /\ genPc = "init"
    /\ output_bytes = 0
    /\ drainEof = FALSE
    /\ tempFile = "none"
    /\ sinkChunks = <<>>
    /\ replyCalled = FALSE
    /\ sendPc = "start"
    /\ result = Running
    /\ elapsed = 0
    /\ waitElapsed = 0
    /\ killRaised = FALSE
    /\ written = <<>>
    /\ closeCount = 0
    /\ readChunks = <<>>
    /\ failKind = ""
    /\ exitedEarly = FALSE
    /\ total_input_bytes = 0
    /\ total_output_bytes = 0
    /\ stderrFill = 0
    /\ stderrBlocked = FALSE

\* progress_tracker.py lines 15-20: a tracker as constructed
TrackerIdle ==
    /\ now = 0
    /\ last_update_time = 0
    /\ progress_message = "None"
    /\ lastEdit = None
    /\ editGap = None

Init ==
    /\ file_size \in DeclaredSizes
    /\ srcLen \in 0..MaxChunks
    /\ hasCallback \in BOOLEAN
    /\ PipelineIdle
    /\ HandlersIdle
    /\ TrackerIdle

\* ------------------------------------------------- stream_from_telegram
SizeExceeded_inclusive(size) == size >= max_file_size

\* line 24: the size policy of the source
SizeExceeded(size) == size > max_file_size

TooLargeMsg == <<"Failed to stream video from Telegram", "File too large">>
SourceErrMsg == <<"Failed to stream video from Telegram", "network error">>

\* the generator has not finished: it still has a chunk or the end to deliver
SourceReady ==
    \/ srcState = "unopened" /\ ~SizeExceeded(file_size)
    \/ srcState = "open"

\* --------------------------------------- ProgressTracker.update_progress
Assign_overwrite(counter, bytes) == IF bytes # None THEN bytes ELSE 0

\* progress_tracker.py lines 38-41: a counter takes the value given for it
\* and keeps its own when the value is None
Assign(counter, bytes) == IF bytes # None THEN bytes ELSE counter

\* lines 38-41 run when the callback is called, before update_progress
\* first suspends (in edit_text, line 83)
update_progress(input_bytes, out_bytes) ==
    /\ total_input_bytes' = Assign(total_input_bytes, input_bytes)
    /\ total_output_bytes' = Assign(total_output_bytes, out_bytes)

\* lines 59-60 and 76-77: if progress_callback: await progress_callback(...)
Progress(input_bytes, out_bytes) ==
    IF hasCallback THEN update_progress(input_bytes, out_bytes)
    ELSE UNCHANGED trackerVars

\* ---------------------------------------------------------- byte counts
\* len(chunk): stream_media and stdout.read give chunks of up to chunk_size
\* bytes; here the odd chunks are full and the even ones half full
len(chunk) == IF chunk % 2 = 0 THEN chunk_size \div 2 ELSE chunk_size

Count_full(total, chunk) == total + chunk_size

\* stream_processor.py lines 58 and 74: total += len(chunk)
Count(total, chunk) == total + len(chunk)

\* ------------------------------------------------------------ feed_input
\* lines 56-57: process.stdin.write(chunk) never suspends and never raises;
\* the transport buffers the chunk, or drops it once the pipe is broken.
WriteInput(buf, chunk, p) == IF p = "running" THEN Append(buf, chunk) ELSE buf

\* first pull of an oversized file: ValueError, re-raised as RuntimeError
FeedSizeExceeded ==
    /\ feedPc = "pull"
    /\ srcState = "unopened"
    /\ SizeExceeded(file_size)
    /\ srcState' = "failed"
    /\ feedPc' = "failed"
    /\ feedErr' = TooLargeMsg
    /\ UNCHANGED <<srcPos, total_bytes, procVars, pipeInVars, pipeOutVars,
                   genPc, output_bytes, sendVars, inputVars, trackerVars, stderrVars, handlerVars, messageVars, histVars, ghostVars, clockVars>>

\* the source yields its next chunk; the feeder writes it and counts it
FeedChunk ==
    /\ feedPc = "pull"
    /\ SourceReady
    /\ srcPos < srcLen
    /\ srcState' = "open"
    /\ srcPos' = srcPos + 1
    /\ stdinBuf' = WriteInput(stdinBuf, srcPos + 1, proc)
    /\ total_bytes' = Count(total_bytes, srcPos + 1)
    /\ feedPc' = IF hasCallback THEN "progress" ELSE "pull"
    /\ written' = Append(written, srcPos + 1)
    /\ Progress(Count(total_bytes, srcPos + 1), None)
    /\ UNCHANGED <<feedErr, procVars, stdinClosed, pipeOutVars, genPc,
                   output_bytes, sendVars, inputVars, stderrVars, handlerVars, messageVars, histVars, killRaised, closeCount, readChunks, failKind, exitedEarly, clockVars>>

\* client.stream_media raises: re-raised as RuntimeError, stdin is not closed
FeedSourceError ==
    /\ feedPc = "pull"
    /\ SourceReady
    /\ srcState' = "failed"
    /\ feedPc' = "failed"
    /\ feedErr' = SourceErrMsg
    /\ UNCHANGED <<srcPos, total_bytes, procVars, pipeInVars, pipeOutVars,
                   genPc, output_bytes, sendVars, inputVars, trackerVars, stderrVars, handlerVars, messageVars, histVars, ghostVars, clockVars>>

FeedEnd_early ==
    /\ feedPc = "pull"
    /\ SourceReady
    /\ srcState' = "exhausted"
    /\ stdinClosed' = TRUE
    /\ feedPc' = "done"
    /\ closeCount' = closeCount + 1
    /\ UNCHANGED <<srcPos, feedErr, total_bytes, procVars, stdinBuf,
                   pipeOutVars, genPc, output_bytes, sendVars, inputVars, trackerVars, stderrVars, handlerVars, messageVars,
                   histVars, killRaised, written, readChunks, failKind,
                   exitedEarly, clockVars>>

FeedEnd_noClose ==
    /\ feedPc = "pull"
    /\ SourceReady
    /\ srcPos = srcLen
    /\ srcState' = "exhausted"
    /\ feedPc' = "done"
    /\ UNCHANGED <<srcPos, feedErr, total_bytes, procVars, pipeInVars,
                   pipeOutVars, genPc, output_bytes, sendVars, inputVars,
                   trackerVars, stderrVars, handlerVars, messageVars, histVars, ghostVars,
                   clockVars>>

\* the source is exhausted: lines 61-62 close stdin
FeedEnd ==
    /\ feedPc = "pull"
    /\ SourceReady
    /\ srcPos = srcLen
    /\ srcState' = "exhausted"
    /\ stdinClosed' = TRUE
    /\ feedPc' = "done"
    /\ closeCount' = closeCount + 1
    /\ UNCHANGED <<srcPos, feedErr, total_bytes, procVars, stdinBuf,
                   pipeOutVars, genPc, output_bytes, sendVars, inputVars, trackerVars, stderrVars, handlerVars, messageVars, histVars, killRaised, written, readChunks, failKind, exitedEarly,
                   clockVars>>

\* line 60: await progress_callback(total_bytes, None) returns
FeedProgress ==
    /\ feedPc = "progress"
    /\ feedPc' = "pull"
    /\ UNCHANGED <<srcVars, feedErr, total_bytes, procVars, pipeInVars,
                   pipeOutVars, genPc, output_bytes, sendVars, inputVars, trackerVars, stderrVars, handlerVars, messageVars, histVars, ghostVars,
                   clockVars>>

\* ------------------------------------------------ the child process (ffmpeg)
\* the child is running and not blocked in a write to its stderr
Working == proc = "running" /\ ~stderrBlocked

ProcConsume ==
    /\ Working
    /\ stdinBuf # <<>>
    /\ stdinBuf' = Tail(stdinBuf)
    /\ UNCHANGED <<srcVars, feedVars, procVars, stdinClosed, pipeOutVars,
                   genPc, output_bytes, sendVars, inputVars, trackerVars, stderrVars, handlerVars, messageVars, histVars, ghostVars, clockVars>>

ProcEmit ==
    /\ Working
    /\ stdoutOpen
    /\ Len(stdoutPipe) < StdoutCap
    /\ emitted < MaxOut
    /\ emitted' = emitted + 1
    /\ stdoutPipe' = Append(stdoutPipe, emitted + 1)
    /\ UNCHANGED <<srcVars, feedVars, procVars, pipeInVars, genPc,
                   output_bytes, sendVars, inputVars, trackerVars, stderrVars, handlerVars, messageVars, histVars, ghostVars, clockVars>>

\* the child writes a block of diagnostics (progress lines, warnings) to
\* its stderr; lines 45-50 make stderr a pipe and nothing reads it before
\* line 89, so once pipe and reader buffer are full the write blocks
ProcWriteStderr ==
    /\ Working
    /\ stderrFill' = IF stderrFill < StderrCap THEN stderrFill + 1
                     ELSE stderrFill
    /\ stderrBlocked' = (stderrFill >= StderrCap)
    /\ UNCHANGED <<srcVars, feedVars, procVars, pipeInVars, pipeOutVars,
                   genPc, output_bytes, sendVars, inputVars, trackerVars,
                   handlerVars, messageVars, histVars, ghostVars, clockVars>>

\* the child closes its stdout and keeps running
ProcCloseStdout ==
    /\ Working
    /\ stdoutOpen
    /\ stdoutOpen' = FALSE
    /\ UNCHANGED <<srcVars, feedVars, proc, returncode, diag, pipeInVars,
                   pipeOutVars, genPc, output_bytes, sendVars, inputVars, trackerVars, stderrVars, handlerVars, messageVars, histVars, ghostVars,
                   clockVars>>

SawEof == stdinClosed /\ stdinBuf = <<>>

Exit(code, text) ==
    /\ proc' = "exited"
    /\ returncode' = code
    /\ diag' = text
    /\ stdoutOpen' = FALSE
    /\ stdinBuf' = <<>>
    /\ exitedEarly' = ~SawEof
    /\ UNCHANGED <<srcVars, feedVars, stdinClosed, pipeOutVars, genPc,
                   output_bytes, sendVars, inputVars, trackerVars, stderrVars, handlerVars, messageVars, histVars, killRaised, written, closeCount, readChunks, failKind, clockVars>>

\* the child has read its whole input and exits
ProcExitEof ==
    /\ Working
    /\ SawEof
    /\ \/ Exit(0, "")
       \/ \E text \in Diags : Exit(1, text)

\* the child exits before the end of its input (it rejects the input)
ProcExitEarly ==
    /\ Working
    /\ ~SawEof
    /\ \/ Exit(0, "")
       \/ \E text \in Diags : Exit(1, text)

\* ----------------------------------------- process_with_ffmpeg, consumer
SendFailedMsg(msg) == Wrap("Failed to send processed video", msg)

SendRaises_leak(msg) ==
    /\ sendPc' = "raised"
    /\ result' = Failure(SendFailedMsg(msg))
    /\ UNCHANGED <<tempFile, sinkChunks, replyCalled>>

\* lines 133-140: send_processed_video removes the temp file and re-raises
SendRaises(msg) ==
    /\ sendPc' = "raised"
    /\ tempFile' = "removed"
    /\ result' = Failure(SendFailedMsg(msg))
    /\ UNCHANGED <<sinkChunks, replyCalled>>

\* process.kill() on a child that is gone either does nothing or raises
\* ProcessLookupError (the transport has already dropped the child)
KillMayRaise(p) == IF p = "running" THEN {FALSE} ELSE {FALSE, TRUE}

\* lines 94-101: the handlers kill the child and raise RuntimeError(prefix:
\* inner); when kill itself raises, that exception (empty text) leaves instead
HandlerRaises(prefix, inner) ==
    \E raised \in KillMayRaise(proc) :
        /\ proc' = IF proc = "running" THEN "killed" ELSE proc
        /\ returncode' = IF proc = "running" THEN -9 ELSE returncode
        /\ stdoutOpen' = IF proc = "running" THEN FALSE ELSE stdoutOpen
        /\ stdinBuf' = IF proc = "running" THEN <<>> ELSE stdinBuf
        /\ genPc' = "raised"
        /\ killRaised' = (killRaised \/ raised)
        /\ stderrBlocked' = FALSE
        /\ SendRaises(IF raised THEN <<>> ELSE Wrap(prefix, inner))
        /\ UNCHANGED diag

\* lines 45-65 after the temp file of line 115: spawn, start feed_task
SpawnOk ==
    /\ genPc = "init"
    /\ sendPc = "start"
    /\ tempFile' = "exists"
    /\ sendPc' = "consuming"
    /\ proc' = "running"
    /\ stdoutOpen' = TRUE
    /\ feedPc' = "pull"
    /\ genPc' = "read"
    /\ UNCHANGED <<srcVars, feedErr, total_bytes, returncode, diag,
                   pipeInVars, pipeOutVars, output_bytes, sinkChunks,
                   replyCalled, result, inputVars, trackerVars, stderrVars, handlerVars, messageVars, histVars, ghostVars, clockVars>>

SpawnFails_keepsFile ==
    /\ genPc = "init"
    /\ sendPc = "start"
    /\ proc' = "spawnfailed"
    /\ genPc' = "raised"
    /\ sendPc' = "raised"
    /\ tempFile' = "exists"
    /\ result' = Failure(SendFailedMsg(Wrap("Video processing failed",
                                            <<"No such file or directory">>)))
    /\ failKind' = "SpawnError"
    /\ UNCHANGED <<srcVars, feedVars, returncode, diag, stdoutOpen,
                   pipeInVars, pipeOutVars, output_bytes, sinkChunks,
                   replyCalled, inputVars, trackerVars, stderrVars,
                   handlerVars, messageVars, histVars, killRaised, written,
                   closeCount, readChunks, exitedEarly, clockVars>>

\* create_subprocess_exec raises: process is None, nothing to kill
SpawnFails ==
    /\ genPc = "init"
    /\ sendPc = "start"
    /\ proc' = "spawnfailed"
    /\ genPc' = "raised"
    /\ SendRaises(Wrap("Video processing failed", <<"No such file or directory">>))
    /\ failKind' = "SpawnError"
    /\ UNCHANGED <<srcVars, feedVars, returncode, diag, stdoutOpen,
                   pipeInVars, pipeOutVars, output_bytes, inputVars, trackerVars, stderrVars, handlerVars, messageVars, histVars, killRaised, written, closeCount, readChunks, exitedEarly,
                   clockVars>>

Forward_twice(sink, chunk) == Append(Append(sink, chunk), chunk)

\* lines 75 and 119-120: the chunk read is yielded as it is and written once
Forward(sink, chunk) == Append(sink, chunk)

DrainChunk_afterFeed ==
    /\ genPc = "read"
    /\ feedPc \in {"done", "failed"}
    /\ stdoutPipe # <<>>
    /\ stdoutPipe' = Tail(stdoutPipe)
    /\ output_bytes' = Count(output_bytes, Head(stdoutPipe))
    /\ sinkChunks' = Forward(sinkChunks, Head(stdoutPipe))
    /\ genPc' = IF hasCallback THEN "progress" ELSE "read"
    /\ readChunks' = Append(readChunks, Head(stdoutPipe))
    /\ Progress(None, Count(output_bytes, Head(stdoutPipe)))
    /\ UNCHANGED <<srcVars, feedVars, procVars, pipeInVars, emitted,
                   tempFile, replyCalled, sendPc, result, inputVars,
                   stderrVars, handlerVars, messageVars, histVars,
                   killRaised, written, closeCount, failKind, exitedEarly,
                   clockVars>>

\* lines 71-75 and 119-120: a chunk is read, yielded and written to the file
DrainChunk ==
    /\ genPc = "read"
    /\ stdoutPipe # <<>>
    /\ stdoutPipe' = Tail(stdoutPipe)
    /\ output_bytes' = Count(output_bytes, Head(stdoutPipe))
    /\ sinkChunks' = Forward(sinkChunks, Head(stdoutPipe))
    /\ genPc' = IF hasCallback THEN "progress" ELSE "read"
    /\ readChunks' = Append(readChunks, Head(stdoutPipe))
    /\ Progress(None, Count(output_bytes, Head(stdoutPipe)))
    /\ UNCHANGED <<srcVars, feedVars, procVars, pipeInVars, emitted,
                   tempFile, replyCalled, sendPc, result, inputVars, stderrVars, handlerVars, messageVars, histVars, killRaised, written, closeCount, failKind, exitedEarly,
                   clockVars>>

\* temp_file.write raises: the generator stays suspended at its yield
SinkWriteFails ==
    /\ genPc = "read"
    /\ stdoutPipe # <<>>
    /\ stdoutPipe' = Tail(stdoutPipe)
    /\ output_bytes' = Count(output_bytes, Head(stdoutPipe))
    /\ genPc' = "suspended"
    /\ SendRaises(<<"No space left on device">>)
    /\ readChunks' = Append(readChunks, Head(stdoutPipe))
    /\ failKind' = "SinkError"
    /\ UNCHANGED <<srcVars, feedVars, procVars, pipeInVars, emitted,
                   inputVars, trackerVars, stderrVars, handlerVars, messageVars, histVars, killRaised, written, closeCount, exitedEarly, clockVars>>

\* the abandoned generator is finalized: GeneratorExit is not an Exception,
\* so neither handler of lines 94-101 runs
GenFinalize ==
    /\ genPc = "suspended"
    /\ genPc' = "closed"
    /\ UNCHANGED <<srcVars, feedVars, procVars, pipeInVars, pipeOutVars,
                   output_bytes, sendVars, inputVars, trackerVars, stderrVars, handlerVars, messageVars, histVars, ghostVars, clockVars>>

\* line 77: await progress_callback(None, output_bytes) returns
DrainProgress ==
    /\ genPc = "progress"
    /\ genPc' = "read"
    /\ UNCHANGED <<srcVars, feedVars, procVars, pipeInVars, pipeOutVars,
                   output_bytes, sendVars, inputVars, trackerVars, stderrVars, handlerVars, messageVars, histVars, ghostVars, clockVars>>

\* lines 72-73: read returns b"" at end of stream
DrainEof ==
    /\ genPc = "read"
    /\ stdoutPipe = <<>>
    /\ ~stdoutOpen
    /\ proc # "none"
    /\ genPc' = "join"
    /\ drainEof' = TRUE
    /\ UNCHANGED <<srcVars, feedVars, procVars, pipeInVars, pipeOutVars,
                   output_bytes, sendVars, inputVars, trackerVars, stderrVars, handlerVars, messageVars, ghostVars, clockVars>>

\* lines 79-80: the read raises
DrainReadFails ==
    /\ genPc = "read"
    /\ HandlerRaises("Video processing failed",
                     <<"Failed to read FFmpeg output", "read error">>)
    /\ failKind' = "ReadError"
    /\ UNCHANGED <<srcVars, feedVars, stdinClosed, pipeOutVars,
                   output_bytes, inputVars, trackerVars, stderrFill, handlerVars, messageVars, histVars, written, closeCount, readChunks, exitedEarly, clockVars>>

\* line 83: await feed_task, the feeder completed
JoinOk ==
    /\ genPc = "join"
    /\ feedPc = "done"
    /\ genPc' = "wait"
    /\ waitElapsed' = 0
    /\ UNCHANGED <<srcVars, feedVars, procVars, pipeInVars, pipeOutVars,
                   output_bytes, sendVars, inputVars, trackerVars, stderrVars, handlerVars, messageVars, histVars, ghostVars, elapsed>>

\* line 83: await feed_task re-raises the feeder's exception
JoinFails ==
    /\ genPc = "join"
    /\ feedPc = "failed"
    /\ HandlerRaises("Video processing failed", feedErr)
    /\ failKind' = IF feedErr = TooLargeMsg THEN "SizeExceeded" ELSE "SourceError"
    /\ UNCHANGED <<srcVars, feedVars, stdinClosed, pipeOutVars,
                   output_bytes, inputVars, trackerVars, stderrFill, handlerVars, messageVars, histVars, written, closeCount, readChunks, exitedEarly, clockVars>>

FFmpegFailed_ignored(code) == FALSE

\* line 90
FFmpegFailed(code) == code # 0

\* line 91
ErrorMsg(text) == IF text # "" THEN text ELSE "Unknown FFmpeg error"

\* lines 86-92 with exit code 0 (line 89 reads what is on stderr): the
\* generator ends, line 123 calls reply_video
WaitExitOk ==
    /\ genPc = "wait"
    /\ proc = "exited"
    /\ ~FFmpegFailed(returncode)
    /\ genPc' = "finished"
    /\ sendPc' = "replying"
    /\ replyCalled' = TRUE
    /\ stderrFill' = 0
    /\ UNCHANGED <<srcVars, feedVars, procVars, pipeInVars, pipeOutVars,
                   output_bytes, tempFile, sinkChunks, result, inputVars, trackerVars, stderrBlocked, handlerVars, messageVars, histVars, ghostVars,
                   clockVars>>

\* lines 86-92 with a non-zero exit code
WaitExitFailed ==
    /\ genPc = "wait"
    /\ proc = "exited"
    /\ FFmpegFailed(returncode)
    /\ HandlerRaises("Video processing failed",
                     <<"FFmpeg processing failed", ErrorMsg(diag)>>)
    /\ stderrFill' = 0
    /\ failKind' = IF exitedEarly THEN "BrokenPipe" ELSE "TransformFailed"
    /\ UNCHANGED <<srcVars, feedVars, stdinClosed, pipeOutVars,
                   output_bytes, inputVars, trackerVars, handlerVars, messageVars, histVars, written, closeCount, readChunks, exitedEarly, clockVars>>

\* lines 86, 94-97: wait_for gives up
WaitTimeout ==
    /\ genPc = "wait"
    /\ proc = "running"
    /\ waitElapsed >= processing_timeout
    /\ HandlerRaises("Processing timed out", <<>>)
    /\ failKind' = "Timeout"
    /\ UNCHANGED <<srcVars, feedVars, stdinClosed, pipeOutVars,
                   output_bytes, inputVars, trackerVars, stderrFill, handlerVars, messageVars, histVars, written, closeCount, readChunks, exitedEarly, clockVars>>

\* lines 123-131: reply_video returns, the temp file is removed
ReplyOk ==
    /\ sendPc = "replying"
    /\ sendPc' = "returned"
    /\ tempFile' = "removed"
    /\ result' = Success
    /\ UNCHANGED <<srcVars, feedVars, procVars, pipeInVars, pipeOutVars,
                   genPc, output_bytes, sinkChunks, replyCalled, inputVars, trackerVars, stderrVars, handlerVars, messageVars, histVars, ghostVars,
                   clockVars>>

ReplyFails_noCleanup ==
    /\ sendPc = "replying"
    /\ sendPc' = "raised"
    /\ result' = Failure(SendFailedMsg(<<"upload failed">>))
    /\ failKind' = "SinkError"
    /\ UNCHANGED <<srcVars, feedVars, procVars, pipeInVars, pipeOutVars,
                   genPc, output_bytes, tempFile, sinkChunks, replyCalled,
                   inputVars, trackerVars, stderrVars, handlerVars, messageVars, histVars, killRaised, written, closeCount,
                   readChunks, exitedEarly, clockVars>>

\* reply_video raises
ReplyFails ==
    /\ sendPc = "replying"
    /\ SendRaises(<<"upload failed">>)
    /\ failKind' = "SinkError"
    /\ UNCHANGED <<srcVars, feedVars, procVars, pipeInVars, pipeOutVars,
                   genPc, output_bytes, inputVars, trackerVars, stderrVars, handlerVars, messageVars, histVars, killRaised, written, closeCount, readChunks, exitedEarly, clockVars>>

\* ------------------------------------------------------------ wall clock
Tick ==
    /\ ~Ended
    /\ \/ elapsed < processing_timeout
       \/ genPc = "wait" /\ waitElapsed < processing_timeout
    /\ elapsed' = Min(elapsed + TickSeconds, processing_timeout)
    /\ waitElapsed' = IF genPc = "wait"
                      THEN Min(waitElapsed + TickSeconds, processing_timeout)
                      ELSE waitElapsed
    /\ UNCHANGED <<srcVars, feedVars, procVars, pipeInVars, pipeOutVars,
                   genPc, output_bytes, sendVars, inputVars, trackerVars, stderrVars, handlerVars, messageVars, histVars, ghostVars>>

Next ==
    \/ FeedSizeExceeded
    \/ FeedChunk
    \/ FeedSourceError
    \/ FeedEnd
    \/ FeedProgress
    \/ ProcConsume
    \/ ProcEmit
    \/ ProcWriteStderr
    \/ ProcCloseStdout
    \/ ProcExitEof
    \/ ProcExitEarly
    \/ SpawnOk
    \/ SpawnFails
    \/ DrainChunk
    \/ SinkWriteFails
    \/ GenFinalize
    \/ DrainProgress
    \/ DrainEof
    \/ DrainReadFails
    \/ JoinOk
    \/ JoinFails
    \/ WaitExitOk
    \/ WaitExitFailed
    \/ WaitTimeout
    \/ ReplyOk
    \/ ReplyFails
    \/ Tick

Spec == Init /\ [][Next]_vars

\* The event loop runs every task that can run, the network answers and the
\* wall clock advances; a child that got the end of its input exits.  Nothing
\* makes a child exit early or write output, and nothing makes an I/O fail.
Fairness ==
    /\ WF_vars(SpawnOk)
    /\ WF_vars(FeedSizeExceeded)
    /\ WF_vars(FeedChunk)
    /\ WF_vars(FeedEnd)
    /\ WF_vars(FeedProgress)
    /\ WF_vars(ProcConsume)
    /\ WF_vars(ProcExitEof)
    /\ WF_vars(DrainChunk)
    /\ WF_vars(DrainProgress)
    /\ WF_vars(DrainEof)
    /\ WF_vars(JoinOk)
    /\ WF_vars(JoinFails)
    /\ WF_vars(WaitExitOk)
    /\ WF_vars(WaitExitFailed)
    /\ WF_vars(WaitTimeout)
    /\ WF_vars(ReplyOk)
    /\ WF_vars(Tick)

FairSpec == Spec /\ Fairness

TypeOK ==
    /\ file_size \in DeclaredSizes
    /\ srcLen \in 0..MaxChunks
    /\ srcPos \in 0..srcLen
    /\ srcState \in {"unopened", "open", "exhausted", "failed"}
    /\ feedPc \in {"none", "pull", "progress", "done", "failed"}
    /\ proc \in {"none", "spawnfailed", "running", "exited", "killed"}
    /\ returncode \in {-1, 0, 1, -9}
    /\ genPc \in {"init", "read", "progress", "join", "wait", "finished",
                  "raised", "suspended", "closed"}
    /\ sendPc \in {"start", "consuming", "replying", "returned", "raised"}
    /\ tempFile \in {"none", "exists", "removed"}
    /\ result.status \in {"running", "success", "failure"}
    /\ total_input_bytes \in 0..(MaxChunks * chunk_size)
    /\ total_output_bytes \in 0..(MaxOut * chunk_size)
    /\ stderrFill \in 0..StderrCap
    /\ stderrBlocked \in BOOLEAN
    /\ stderrBlocked => proc = "running"

\* ==================================================== the bot's handlers
\* encode.py, audio.py and subtitle.py keep one session per user in a module
\* dict and start a pipeline run (process_video_stream) for a video.  One
\* action is one call of a handler by the dispatcher, up to the start of its
\* pipeline run; the run ends in a later step, and the handler's clean-up
\* (after its await of tracker.complete) in another.  Replies to the user
\* are not kept.  Texts are sequences of the pieces they are written with:
\* "encode720" is <<"encode", "720">> and "720p" is <<"720", "p">>.
Users == {"u1"}

MaxRuns == 2          \* most pipeline runs of the handlers in progress
MaxFiles == 2         \* most temporary subtitle files ever created

\* a Python dict as a function: key in dict, dict[key] = value, dict.pop
Has(dict, key) == key \in DOMAIN dict

Put(dict, key, value) ==
    [k \in DOMAIN dict \cup {key} |-> IF k = key THEN value ELSE dict[k]]

Pop(dict, key) == [k \in DOMAIN dict \ {key} |-> dict[k]]

\* str.replace(piece, ""): the text without that piece
Replace(text, piece) == SelectSeq(text, LAMBDA t : t # piece)

Lower_none(text) == text

\* str.lower() of one piece
LowerPiece(t) ==
    CASE t = "MP3" -> "mp3"
      [] t = "OGG" -> "ogg"
      [] t = "WAV" -> "wav"
      [] t = "MOVIE" -> "movie"
      [] t = ".SRT" -> ".srt"
      [] OTHER -> t

Lower(text) == [i \in 1..Len(text) |-> LowerPiece(text[i])]

\* str.endswith(suffix)
endswith(text, suffix) == text # <<>> /\ text[Len(text)] = suffix

\* message.document.file_name of the documents users send
FileNames == {<<"MOVIE", ".SRT">>, <<"movie", ".txt">>}

\* message.command[0] of the commands the handlers are registered for
EncodeCommands == {<<"encode", "720">>, <<"encode", "480">>, <<"encode", "360">>}
ExtractCommands == {<<"extract", "MP3">>, <<"extract", "OGG">>, <<"extract", "WAV">>}
AudioCommands == {<<"add", "audio">>, <<"replace", "audio">>}

\* ffmpeg_utils.py lines 82-89
get_supported_resolutions == {<<"720", "p">>, <<"480", "p">>, <<"360", "p">>}
get_supported_audio_formats == {<<"mp3">>, <<"ogg">>, <<"wav">>}

\* ffmpeg_utils.py lines 97-104
validate_resolution(resolution) == resolution \in get_supported_resolutions
validate_audio_format(format) == format \in get_supported_audio_formats

\* ffmpeg_stream.py lines 19-45: the scale and the rate of the command
get_resolution_encode_cmd(resolution) ==
    CASE resolution = <<"720", "p">> -> [scale |-> <<1280, 720>>, maxrate |-> "2000k"]
      [] resolution = <<"480", "p">> -> [scale |-> <<854, 480>>, maxrate |-> "1000k"]
      [] resolution = <<"360", "p">> -> [scale |-> <<640, 360>>, maxrate |-> "500k"]

\* ffmpeg_stream.py lines 62-82: the codec and the output format (-f)
get_audio_extract_cmd(format) ==
    CASE format = <<"mp3">> -> [codec |-> "libmp3lame", f |-> format]
      [] format = <<"ogg">> -> [codec |-> "libvorbis", f |-> format]
      [] format = <<"wav">> -> [codec |-> "pcm_s16le", f |-> format]

\* ffmpeg_stream.py lines 135-141 and 184-194
get_subtitle_extract_cmd == [map |-> "0:s:0", f |-> <<"srt">>]
get_subtitle_embed_cmd(subtitle_file_path) ==
    [subtitles |-> subtitle_file_path, f |-> <<"mp4">>]

\* encode.py line 102, in KiB
max_size == 2 * 1024 * 1024

\* the event a step handled, for the handlers the claims are about: the
\* user, the handler, the command or the kind or name of the file, and
\* the title of the show_error reply ("" when the handler showed no error)
NoEvent == [user |-> "", by |-> "", command |-> <<>>, error |-> ""]
Handled(user_id, name, command) ==
    handled' = [user |-> user_id, by |-> name, command |-> command,
                error |-> ""]
Rejected(user_id, name, command, error) ==
    handled' = [user |-> user_id, by |-> name, command |-> command,
                error |-> error]

\* a pipeline run a handler started: "processing" from the spawn of the
\* child to its exit, then "sent" (process_video_stream returned, the result
\* is with the user) or "failed" (it raised)
Run(user_id, op, cmd) ==
    [user |-> user_id, op |-> op, cmd |-> cmd, pc |-> "processing"]

Remove(seq, i) == SubSeq(seq, 1, i - 1) \o SubSeq(seq, i + 1, Len(seq))

notEncode == <<user_audio_states, user_subtitle_states, subtitle_files, created>>
notAudio == <<user_encoding_states, user_subtitle_states, subtitle_files, created>>
idleVars == <<pipelineVars, streamVars>>

\* ------------------------------------------------------------- encode.py
\* lines 40-73: /encode720, /encode480, /encode360
encode_resolution_command(user_id, command) ==
    LET resolution == Replace(command, "encode") IN
    /\ user_encoding_states' =
           IF validate_resolution(resolution)
           THEN Put(user_encoding_states, user_id,
                    [resolution |-> resolution, stage |-> "waiting_for_video"])
           ELSE user_encoding_states
    /\ IF validate_resolution(resolution)
       THEN Handled(user_id, "encode_resolution_command", command)
       ELSE Rejected(user_id, "encode_resolution_command", command,
                     "Invalid resolution")
    /\ UNCHANGED <<notEncode, runs, idleVars>>

\* lines 75-137: a video, up to the start of encode_video_stream
handle_video_encoding(user_id, size) ==
    LET waiting == /\ Has(user_encoding_states, user_id)
                   /\ user_encoding_states[user_id].stage = "waiting_for_video"
        starts == waiting /\ ~(size > max_size)
    IN  /\ starts => Len(runs) < MaxRuns
        /\ runs' =
               IF starts
               THEN Append(runs, Run(user_id, "encode",
                        get_resolution_encode_cmd(
                            user_encoding_states[user_id].resolution)))
               ELSE runs
        /\ IF starts
           THEN Handled(user_id, "handle_video_encoding", <<"video">>)
           ELSE IF waiting
           THEN Rejected(user_id, "handle_video_encoding", <<"video">>,
                         "File too large")
           ELSE handled' = NoEvent
        /\ UNCHANGED <<user_encoding_states, notEncode, idleVars>>

\* lines 158-167: /cancel
cancel_encoding(user_id) ==
    /\ user_encoding_states' = Pop(user_encoding_states, user_id)
    /\ Handled(user_id, "cancel_encoding", <<"cancel">>)
    /\ UNCHANGED <<notEncode, runs, idleVars>>

\* -------------------------------------------------------------- audio.py
\* lines 61-95: /extractMP3, /extractOGG, /extractWAV
extract_audio_format_command(user_id, command) ==
    LET format_name == Replace(Lower(command), "extract") IN
    /\ user_audio_states' =
           IF validate_audio_format(format_name)
           THEN Put(user_audio_states, user_id,
                    [operation |-> "extract", format |-> format_name,
                     stage |-> "waiting_for_video"])
           ELSE user_audio_states
    /\ IF validate_audio_format(format_name)
       THEN Handled(user_id, "extract_audio_format_command", command)
       ELSE Rejected(user_id, "extract_audio_format_command", command,
                     "Invalid format")
    /\ UNCHANGED <<notAudio, runs, idleVars>>

\* lines 97-118: /addaudio, /replaceaudio
add_audio_command(user_id, command) ==
    LET operation == IF "replace" \in Range(command) THEN "replace" ELSE "add" IN
    /\ user_audio_states' =
           Put(user_audio_states, user_id,
               [operation |-> operation, stage |-> "waiting_for_video"])
    /\ handled' = NoEvent
    /\ UNCHANGED <<notAudio, runs, idleVars>>

\* lines 120-148 and 165-191: a video, up to the start of
\* extract_audio_stream
handle_video_for_audio(user_id) ==
    LET present == Has(user_audio_states, user_id)
        state == user_audio_states[user_id]
        extracting == /\ present
                      /\ state.operation = "extract"
                      /\ state.stage = "waiting_for_video"
        adding == /\ present
                  /\ state.operation \in {"add", "replace"}
                  /\ state.stage = "waiting_for_video"
    IN  /\ extracting => Len(runs) < MaxRuns
        /\ runs' =
               IF extracting
               THEN Append(runs, Run(user_id, "extract_audio",
                                     get_audio_extract_cmd(state.format)))
               ELSE runs
        /\ user_audio_states' =
               IF adding
               THEN Put(user_audio_states, user_id,
                        [operation |-> state.operation,
                         stage |-> "waiting_for_audio",
                         video_message |-> "video"])
               ELSE user_audio_states
        /\ Handled(user_id, "handle_video_for_audio", <<"video">>)
        /\ UNCHANGED <<notAudio, idleVars>>

handle_audio_file_anyStage(user_id) ==
    LET adding == /\ Has(user_audio_states, user_id)
                  /\ user_audio_states[user_id].operation \in {"add", "replace"}
    IN  /\ user_audio_states' =
               IF adding THEN Pop(user_audio_states, user_id)
               ELSE user_audio_states
        /\ IF adding
           THEN Rejected(user_id, "handle_audio_file", <<"audio">>,
                         "Feature in development")
           ELSE IF Has(user_audio_states, user_id)
           THEN Handled(user_id, "handle_audio_file", <<"audio">>)
           ELSE handled' = NoEvent
        /\ UNCHANGED <<notAudio, runs, idleVars>>

\* lines 150-163 and 212-233: an audio file; the addition is not implemented
handle_audio_file(user_id) ==
    LET adding == /\ Has(user_audio_states, user_id)
                  /\ user_audio_states[user_id].operation \in {"add", "replace"}
                  /\ user_audio_states[user_id].stage = "waiting_for_audio"
    IN  /\ user_audio_states' =
               IF adding THEN Pop(user_audio_states, user_id)
               ELSE user_audio_states
        /\ IF adding
           THEN Rejected(user_id, "handle_audio_file", <<"audio">>,
                         "Feature in development")
           ELSE IF Has(user_audio_states, user_id)
           THEN Handled(user_id, "handle_audio_file", <<"audio">>)
           ELSE handled' = NoEvent
        /\ UNCHANGED <<notAudio, runs, idleVars>>

\* lines 248-257: /cancelaudio
cancel_audio_operation(user_id) ==
    /\ user_audio_states' = Pop(user_audio_states, user_id)
    /\ Handled(user_id, "cancel_audio_operation", <<"cancelaudio">>)
    /\ UNCHANGED <<notAudio, runs, idleVars>>

\* ----------------------------------------------------------- subtitle.py
notSubtitle == <<user_encoding_states, user_audio_states>>

NotSrt_never(file_name) == FALSE

\* lines 186-187: not file_name.lower().endswith('.srt')
NotSrt(file_name) == ~endswith(Lower(file_name), ".srt")

\* lines 41-58: /extractsub
extract_subtitle_command(user_id) ==
    /\ user_subtitle_states' =
           Put(user_subtitle_states, user_id,
               [operation |-> "extract", stage |-> "waiting_for_video"])
    /\ handled' = NoEvent
    /\ UNCHANGED <<notSubtitle, subtitle_files, created, runs, idleVars>>

add_subtitle_command_ready(user_id) ==
    /\ user_subtitle_states' =
           Put(user_subtitle_states, user_id,
               [operation |-> "add", stage |-> "waiting_for_video"])
    /\ handled' = NoEvent
    /\ UNCHANGED <<notSubtitle, subtitle_files, created, runs, idleVars>>

\* lines 60-76: /addsub
add_subtitle_command(user_id) ==
    /\ user_subtitle_states' =
           Put(user_subtitle_states, user_id,
               [operation |-> "add", stage |-> "waiting_for_subtitle"])
    /\ handled' = NoEvent
    /\ UNCHANGED <<notSubtitle, subtitle_files, created, runs, idleVars>>

\* lines 78-97, 114-151 and 225-251: a video, up to the start of
\* extract_subtitles_stream or embed_subtitles_stream; has_subtitles is
\* what check_video_has_subtitles returned
handle_video_for_subtitle(user_id, has_subtitles) ==
    LET present == Has(user_subtitle_states, user_id)
        state == user_subtitle_states[user_id]
        waiting == present /\ state.stage = "waiting_for_video"
        extracting == waiting /\ state.operation = "extract"
        embedding == waiting /\ state.operation = "add"
        starts == (extracting /\ has_subtitles) \/ embedding
    IN  /\ starts => Len(runs) < MaxRuns
        /\ runs' =
               IF embedding
               THEN Append(runs, Run(user_id, "embed_subtitles",
                               get_subtitle_embed_cmd(state.subtitle_path)))
               ELSE IF extracting /\ has_subtitles
               THEN Append(runs, Run(user_id, "extract_subtitles",
                                     get_subtitle_extract_cmd))
               ELSE runs
        /\ user_subtitle_states' =
               IF extracting /\ ~has_subtitles
               THEN Pop(user_subtitle_states, user_id)
               ELSE user_subtitle_states
        /\ IF extracting /\ ~has_subtitles
           THEN Rejected(user_id, "handle_video_for_subtitle", <<"video">>,
                         "No subtitles found")
           ELSE IF present
           THEN Handled(user_id, "handle_video_for_subtitle", <<"video">>)
           ELSE handled' = NoEvent
        /\ UNCHANGED <<notSubtitle, subtitle_files, created, idleVars>>

\* lines 99-112 and 172-223: a document; downloaded: message.download did
\* not raise
handle_subtitle_file(user_id, file_name, downloaded) ==
    LET present == Has(user_subtitle_states, user_id)
        state == user_subtitle_states[user_id]
        expected == /\ present
                    /\ state.operation = "add"
                    /\ state.stage = "waiting_for_subtitle"
        uploading == expected /\ ~NotSrt(file_name)
        subtitle_path == created + 1
    IN  /\ uploading => created < MaxFiles
        /\ created' = IF uploading THEN created + 1 ELSE created
        /\ subtitle_files' =
               IF uploading THEN subtitle_files \cup {subtitle_path}
               ELSE subtitle_files
        /\ user_subtitle_states' =
               IF uploading /\ downloaded
               THEN Put(user_subtitle_states, user_id,
                        [operation |-> "add", stage |-> "waiting_for_video",
                         subtitle_path |-> subtitle_path])
               ELSE IF uploading
               THEN Pop(user_subtitle_states, user_id)
               ELSE user_subtitle_states
        /\ IF uploading /\ downloaded
           THEN Handled(user_id, "handle_subtitle_file", file_name)
           ELSE IF uploading
           THEN Rejected(user_id, "handle_subtitle_file", file_name,
                         "Failed to process subtitle file")
           ELSE IF expected
           THEN Rejected(user_id, "handle_subtitle_file", file_name,
                         "Invalid format")
           ELSE handled' = NoEvent
        /\ UNCHANGED <<notSubtitle, runs, idleVars>>

\* lines 283-300: /cancelsub
cancel_subtitle_operation(user_id) ==
    LET present == Has(user_subtitle_states, user_id)
        state == user_subtitle_states[user_id]
    IN  /\ subtitle_files' =
               IF present /\ "subtitle_path" \in DOMAIN state
               THEN subtitle_files \ {state.subtitle_path}
               ELSE subtitle_files
        /\ user_subtitle_states' = Pop(user_subtitle_states, user_id)
        /\ Handled(user_id, "cancel_subtitle_operation", <<"cancelsub">>)
        /\ UNCHANGED <<notSubtitle, created, runs, idleVars>>

\* -------------------------------------- the end of a handler's pipeline run
\* process_video_stream returned: the child has exited and reply_video has
\* delivered the result
RunReturns(i) ==
    /\ runs[i].pc = "processing"
    /\ runs' = [runs EXCEPT ![i].pc = "sent"]
    /\ handled' = NoEvent
    /\ UNCHANGED <<user_encoding_states, user_audio_states,
                   user_subtitle_states, subtitle_files, created, idleVars>>

\* process_video_stream raised
RunRaises(i) ==
    /\ runs[i].pc = "processing"
    /\ runs' = [runs EXCEPT ![i].pc = "failed"]
    /\ handled' = NoEvent
    /\ UNCHANGED <<user_encoding_states, user_audio_states,
                   user_subtitle_states, subtitle_files, created, idleVars>>

\* the handler function that awaits a run of this kind
HandlerOf(op) ==
    CASE op = "encode" -> "handle_video_encoding"
      [] op = "extract_audio" -> "handle_audio_extraction"
      [] op = "extract_subtitles" -> "handle_subtitle_extraction"
      [] op = "embed_subtitles" -> "handle_subtitle_embedding"

\* the title of the error the handler shows when its run has failed
FailedTitle(op) ==
    CASE op = "encode" -> "Encoding failed"
      [] op = "extract_audio" -> "Audio extraction failed"
      [] op = "extract_subtitles" -> "Subtitle extraction failed"
      [] op = "embed_subtitles" -> "Subtitle embedding failed"

HandlerFinishes_keeps(i) ==
    /\ runs[i].pc \in {"sent", "failed"}
    /\ subtitle_files' =
           IF runs[i].op = "embed_subtitles"
           THEN subtitle_files \ {runs[i].cmd.subtitles}
           ELSE subtitle_files
    /\ runs' = Remove(runs, i)
    /\ IF runs[i].pc = "sent"
       THEN Handled(runs[i].user, HandlerOf(runs[i].op), <<"finished">>)
       ELSE Rejected(runs[i].user, HandlerOf(runs[i].op), <<"finished">>,
                     FailedTitle(runs[i].op))
    /\ UNCHANGED <<user_encoding_states, user_audio_states,
                   user_subtitle_states, created, idleVars>>

\* encode.py 139-156, audio.py 193-210, subtitle.py 153-170 and 253-281:
\* after tracker.complete (and show_error when the run failed) the handler
\* removes the user's session, and the embedding removes its subtitle file
HandlerFinishes(i) ==
    LET run == runs[i] IN
    /\ run.pc \in {"sent", "failed"}
    /\ user_encoding_states' =
           IF run.op = "encode" THEN Pop(user_encoding_states, run.user)
           ELSE user_encoding_states
    /\ user_audio_states' =
           IF run.op = "extract_audio" THEN Pop(user_audio_states, run.user)
           ELSE user_audio_states
    /\ user_subtitle_states' =
           IF run.op \in {"extract_subtitles", "embed_subtitles"}
           THEN Pop(user_subtitle_states, run.user)
           ELSE user_subtitle_states
    /\ subtitle_files' =
           IF run.op = "embed_subtitles"
           THEN subtitle_files \ {run.cmd.subtitles}
           ELSE subtitle_files
    /\ runs' = Remove(runs, i)
    /\ IF run.pc = "sent"
       THEN Handled(run.user, HandlerOf(run.op), <<"finished">>)
       ELSE Rejected(run.user, HandlerOf(run.op), <<"finished">>,
                     FailedTitle(run.op))
    /\ UNCHANGED <<created, idleVars>>

HandlerNext ==
    \/ \E u \in Users, c \in EncodeCommands : encode_resolution_command(u, c)
    \/ \E u \in Users, size \in {max_size, max_size + 1} :
           handle_video_encoding(u, size)
    \/ \E u \in Users : cancel_encoding(u)
    \/ \E u \in Users, c \in ExtractCommands : extract_audio_format_command(u, c)
    \/ \E u \in Users, c \in AudioCommands : add_audio_command(u, c)
    \/ \E u \in Users : handle_video_for_audio(u)
    \/ \E u \in Users : handle_audio_file(u)
    \/ \E u \in Users : cancel_audio_operation(u)
    \/ \E u \in Users : extract_subtitle_command(u)
    \/ \E u \in Users : add_subtitle_command(u)
    \/ \E u \in Users, has_subtitles \in BOOLEAN :
           handle_video_for_subtitle(u, has_subtitles)
    \/ \E u \in Users, file_name \in FileNames, downloaded \in BOOLEAN :
           handle_subtitle_file(u, file_name, downloaded)
    \/ \E u \in Users : cancel_subtitle_operation(u)
    \/ \E i \in 1..Len(runs) : RunReturns(i)
    \/ \E i \in 1..Len(runs) : RunRaises(i)
    \/ \E i \in 1..Len(runs) : HandlerFinishes(i)

\* no call of process_video_stream is modelled step by step
NoRun ==
    /\ file_size = 0
    /\ srcLen = 0
    /\ hasCallback = FALSE
    /\ PipelineIdle

HandlerInit == NoRun /\ HandlersIdle /\ TrackerIdle

HandlerSpec == HandlerInit /\ [][HandlerNext]_vars

\* ------------------------------ concurrent calls of process_video_stream
\* Each call (stream_processor.py lines 147-164) makes its own source
\* generator, its own child process and its own counters, all locals of
\* the call; the calls share the instance video_processor.  A call is seen
\* here through its child, the chunks it pulled and its two counters.
MaxStreams == 2       \* most calls in progress

NewStream ==
    [child |-> "running", source |-> 0, total_bytes |-> 0, output_bytes |-> 0]

StreamStart ==
    /\ Len(streams) < MaxStreams
    /\ streams' = Append(streams, NewStream)
    /\ UNCHANGED <<video_processor, sessionVars, pipelineVars>>

\* lines 55-58: the call's feeder pulls a chunk of its source and counts it
Fed(ss, i) ==
    [ss EXCEPT ![i].source = @ + 1, ![i].total_bytes = @ + chunk_size]

StreamFeed(i) ==
    /\ streams[i].child = "running"
    /\ streams[i].source < MaxChunks
    /\ streams' = Fed(streams, i)
    /\ UNCHANGED <<video_processor, sessionVars, pipelineVars>>

Drained_shared(ss, i) ==
    [k \in 1..Len(ss) |->
        [ss[k] EXCEPT !.output_bytes =
                          ss[i].output_bytes + video_processor.chunk_size]]

\* lines 71-74: the call reads up to self.chunk_size and counts it
Drained(ss, i) ==
    [ss EXCEPT ![i].output_bytes = @ + video_processor.chunk_size]

StreamDrain(i) ==
    /\ streams[i].child = "running"
    /\ streams[i].output_bytes < MaxOut * video_processor.chunk_size
    /\ streams' = Drained(streams, i)
    /\ UNCHANGED <<video_processor, sessionVars, pipelineVars>>

\* the call's child exits, or lines 96 and 100 kill it
StreamEnds(i) ==
    /\ streams[i].child = "running"
    /\ \E end \in {"exited", "killed"} :
           streams' = [streams EXCEPT ![i].child = end]
    /\ UNCHANGED <<video_processor, sessionVars, pipelineVars>>

ConcurrentNext ==
    \/ StreamStart
    \/ \E i \in 1..Len(streams) : StreamFeed(i)
    \/ \E i \in 1..Len(streams) : StreamDrain(i)
    \/ \E i \in 1..Len(streams) : StreamEnds(i)

ConcurrentSpec == HandlerInit /\ [][ConcurrentNext]_vars


\* ==================================================== ProgressTracker
\* progress_tracker.py: one tracker and its progress message.  The pipeline
\* actions above follow the counters of update_progress only; the edits of
\* the message are followed here, for calls with any arguments.
\* bool(x) of an Optional[int]: None and 0 are false
Truthy(bytes) == bytes # None /\ bytes # 0

\* line 47: the call returns without an edit
Throttled(time_since_last_update, input_bytes, out_bytes) ==
    /\ time_since_last_update < update_interval
    /\ ~(Truthy(input_bytes) \/ Truthy(out_bytes))

\* lines 24-34: the first message is a reply, not an edit
start_processing ==
    /\ progress_message = "None"
    /\ progress_message' = "sent"
    /\ last_update_time' = now
    /\ UNCHANGED <<now, lastEdit, editGap, trackerVars, runVars, handlerVars>>

\* lines 36-87, one call; ok: edit_text did not raise (lines 85-87 swallow
\* the exception and leave last_update_time as it was)
UpdateProgress(input_bytes, out_bytes, ok) ==
    LET edits == /\ ~Throttled(now - last_update_time, input_bytes, out_bytes)
                 /\ ok
    IN  /\ progress_message = "sent"
        /\ update_progress(input_bytes, out_bytes)
        /\ last_update_time' = IF edits THEN now ELSE last_update_time
        /\ lastEdit' = IF edits THEN now ELSE lastEdit
        /\ editGap' = IF edits /\ lastEdit # None THEN now - lastEdit ELSE None
        /\ UNCHANGED <<now, progress_message, runVars, handlerVars>>

\* a second of wall-clock time passes
TimePasses ==
    /\ now < MaxSeconds
    /\ now' = now + 1
    /\ UNCHANGED <<last_update_time, progress_message, lastEdit, editGap,
                   trackerVars, runVars, handlerVars>>

\* the byte counts a caller passes (set_phase passes None and None)
ByteCounts == {None, 0, chunk_size}

TrackerNext ==
    \/ start_processing
    \/ \E input_bytes \in ByteCounts, out_bytes \in ByteCounts, ok \in BOOLEAN :
           UpdateProgress(input_bytes, out_bytes, ok)
    \/ TimePasses

TrackerSpec == HandlerInit /\ [][TrackerNext]_vars


\* ================================================================ claims
InMsg(part) == part \in Range(result.msg)

\* C1: a run on a file whose declared size exceeds max_file_size never
\* spawns (nor tries to spawn) the child process, and when it ends it ends
\* with the size-exceeded error.
C1_SizePreflight ==
    SizeExceeded(file_size) =>
        /\ proc = "none"
        /\ Ended => result.status = "failure" /\ InMsg("File too large")

AllComplete ==
    /\ feedPc \in {"done", "failed"}
    /\ drainEof
    /\ proc \in {"exited", "killed"}

\* C2: when processing_timeout seconds have passed since the start of the
\* run and the drainer is still at its read on a running child (feeder,
\* drainer and process exit have not all completed), the run fails; a run
\* that fails with the timeout error has killed the child.
C2_GlobalTimeout ==
    (elapsed >= processing_timeout /\ genPc = "read" /\ proc = "running"
        /\ ~AllComplete)
        ~> (result.status = "failure"
            /\ (InMsg("Processing timed out") => proc = "killed"))

\* C3: when the source has failed while the child is running, the run
\* eventually ends with a failure (it does not wait forever on the child's
\* output), and when it returns the source's failure the child is not
\* running any more.
C3_SourceFailureEndsRun ==
    (feedPc = "failed" /\ srcState = "failed" /\ proc = "running" /\ ~Ended)
        ~> (result.status = "failure"
            /\ (InMsg("network error") => proc # "running"))

\* C4: whenever process_video_stream has returned or raised, the child
\* process is not running.
C4_ChildTerminatedAtReturn ==
    Ended => proc # "running"

\* C5: when the sink rejected an output chunk, the child process has been
\* killed (or is gone) and the run's error is the sink's error.
C5_SinkFailureKillsChild ==
    (Ended /\ genPc \in {"suspended", "closed"}) =>
        /\ proc # "running"
        /\ result.status = "failure"
        /\ InMsg("No space left on device")

\* the output side takes nothing more from the child: the drainer is not at
\* its read (it waits for the observer, or was abandoned by a failed sink)
\* and the stdout pipe is full
OutputStalled ==
    /\ proc = "running"
    /\ genPc \in {"progress", "suspended", "closed"}
    /\ Len(stdoutPipe) = StdoutCap

\* C6: while the output side is stalled, at most one chunk pulled from the
\* source waits unconsumed in front of the child (the feeder is suspended
\* in its write until the child takes the chunk).
C6_Backpressure ==
    OutputStalled => Len(stdinBuf) <= 1

\* C7: whenever the run has returned or raised, the feeder task is not
\* running: it was never started, has completed, or has failed.
C7_FeederJoinedAtReturn ==
    Ended => feedPc \in {"none", "done", "failed"}

\* C8: whenever the run has returned or raised, the source stream is not
\* left open: it was never opened, is exhausted, or has failed.
C8_SourceClosedAtReturn ==
    Ended => srcState \in {"unopened", "exhausted", "failed"}

\* C9: reply_video is called only in runs where the feeder completed without
\* error, the drainer reached end of stream and the child exited with code 0.
C9_FinalizeOnlyOnSuccess ==
    replyCalled =>
        /\ feedPc = "done"
        /\ drainEof
        /\ stdoutPipe = <<>>
        /\ proc = "exited"
        /\ returncode = 0

C9_Witness ==
    /\ replyCalled
    /\ result.status = "success"
    /\ srcPos > 0
    /\ Len(sinkChunks) > 0

\* C10: when feeder and drainer both completed and the child exited with a
\* non-zero code, the run fails with the transform-failed error and its
\* message contains the text the child wrote to its diagnostic channel.
C10_TransformFailedCarriesDiag ==
    (Ended /\ feedPc = "done" /\ drainEof /\ proc = "exited"
           /\ FFmpegFailed(returncode)) =>
        /\ result.status = "failure"
        /\ InMsg("FFmpeg processing failed")
        /\ InMsg(ErrorMsg(diag))

\* C11: the process.kill() that the failure handler makes after the child
\* has exited with a non-zero code (feeder and drainer completed) does
\* nothing and raises nothing.
C11_KillAfterExitIsNoop ==
    (genPc = "raised" /\ feedPc = "done" /\ drainEof /\ proc = "exited"
        /\ FFmpegFailed(returncode)) => ~killRaised

\* C12: when the feeder failed and the drainer reached end of stream on a
\* child that exited, the error of the run carries the feeder's error,
\* whatever the exit code.
C12_FeederErrorSurfaced ==
    (Ended /\ failKind \in {"SizeExceeded", "SourceError"} /\ drainEof
           /\ proc = "exited") =>
        /\ result.status = "failure"
        /\ Range(feedErr) \subseteq Range(result.msg)

\* C13: a write of the feeder made once the child has exited or been killed
\* fails and stops the feeder: after that step the feeder is in its failed
\* state (so it pulls nothing more).
C13_FeederStopsOnBrokenPipe ==
    [][(proc \in {"exited", "killed"} /\ written' # written)
          => feedPc' = "failed"]_vars

\* C14: the data path never waits on the observer: while a progress
\* callback of the feeder has not returned, the feeder can still take and
\* write a chunk the source has ready, and while a progress callback of the
\* drainer has not returned, the drainer can still forward a chunk that is
\* ready on stdout.
C14_ObserverNeverBlocks ==
    /\ (feedPc = "progress" /\ SourceReady /\ srcPos < srcLen)
          => ENABLED FeedChunk
    /\ (genPc = "progress" /\ stdoutPipe # <<>>) => ENABLED DrainChunk

\* the sink refused the last chunk it was handed
SinkRejected == genPc \in {"suspended", "closed"}

\* C15: the chunks read from stdout are, in order, exactly what the child
\* wrote and has not been read yet excepted; the chunks in the sink are, in
\* order, exactly the chunks read (less the one chunk a failing sink
\* refused): nothing is dropped, duplicated or reordered.
C15_OutputOrder ==
    /\ readChunks \o stdoutPipe = [i \in 1..emitted |-> i]
    /\ sinkChunks = SubSeq(readChunks, 1,
                           Len(readChunks) - (IF SinkRejected THEN 1 ELSE 0))

C15_Witness ==
    /\ Len(sinkChunks) >= 2
    /\ srcPos >= 1
    /\ result.status = "success"

KindOf(msg) ==
    LET has(part) == part \in Range(msg) IN
    IF has("File too large") THEN "SizeExceeded"
    ELSE IF has("No such file or directory") THEN "SpawnError"
    ELSE IF has("network error") THEN "SourceError"
    ELSE IF has("Processing timed out") THEN "Timeout"
    ELSE IF has("FFmpeg processing failed") THEN "TransformFailed"
    ELSE IF has("No space left on device") \/ has("upload failed")
         THEN "SinkError"
    ELSE IF has("read error") THEN "ReadError"
    ELSE "Unknown"

\* C17: the error of a failed run identifies the kind of the failure so
\* that the failure of a child that rejected its input and exited early
\* (BrokenPipe) is told apart from every other failure: the error reads as
\* BrokenPipe exactly in the runs that failed that way.
C17_FailureKindIdentified ==
    result.status = "failure" =>
        (KindOf(result.msg) = "BrokenPipe" <=> failKind = "BrokenPipe")

\* C18: no part of the error of a run is a diagnostic text of more than
\* 64 KiB.
C18_DiagTruncated ==
    \A i \in 1..Len(result.msg) : DiagSize(result.msg[i]) <= 64

\* abort: the handler of lines 133-140 discarded the partial output
Aborted == sendPc = "raised" /\ tempFile = "removed"

\* C19 (as claimed): a run that has ended called exactly one of finalize
\* (reply_video) and abort.
C19_ExactlyOneOfFinalizeAbort ==
    Ended => (replyCalled /\ ~Aborted) \/ (~replyCalled /\ Aborted)

\* C19 (amended): a run that has ended, its temporary file once created,
\* called finalize or abort; a run that returned called finalize and not
\* abort; a run that raised called abort, and it called finalize before
\* only when reply_video itself raised.
C19_FinalizeOrAbort ==
    Ended =>
        /\ replyCalled \/ Aborted
        /\ result.status = "success" => replyCalled /\ ~Aborted
        /\ result.status = "failure" => Aborted
        /\ (replyCalled /\ Aborted) =>
               failKind = "SinkError" /\ InMsg("upload failed")

C19_Witness ==
    /\ Ended
    /\ replyCalled
    /\ Aborted

\* C20: when send_processed_video has raised, the temporary file it created
\* has been removed.
C20_TempFileRemovedOnFailure ==
    sendPc = "raised" => tempFile = "removed"

C20_Witness ==
    /\ sendPc = "raised"
    /\ replyCalled
    /\ failKind = "SinkError"
    /\ tempFile = "removed"

\* C21: a run whose source declares size 0 and delivers no chunk, with a
\* child that exits with code 0, ends without error (sink and read faults
\* apart); the feeder has written nothing and has closed stdin, once.
C21_EmptyInputCompletes ==
    (Ended /\ file_size = 0 /\ srcLen = 0 /\ srcState = "exhausted"
        /\ proc = "exited" /\ returncode = 0
        /\ failKind \notin {"SinkError", "ReadError"}) =>
        /\ result.status = "success"
        /\ written = <<>>
        /\ total_bytes = 0
        /\ stdinClosed
        /\ closeCount = 1

C21_Witness ==
    /\ file_size = 0
    /\ srcLen = 0
    /\ result.status = "success"
    /\ closeCount = 1
    /\ ~exitedEarly

\* C22: stream_from_telegram refuses exactly when the declared size is
\* greater than max_file_size: of an oversized file no chunk is produced
\* and the origin is never asked (the stream is never open), and the first
\* pull can only raise the size error; of a file of at most max_file_size
\* (the limit itself included) the first pull opens the stream, and the
\* size error is never raised.
C22_SizeGate ==
    /\ file_size > max_file_size =>
          /\ srcPos = 0
          /\ written = <<>>
          /\ srcState \in {"unopened", "failed"}
    /\ feedErr = TooLargeMsg => file_size > max_file_size
    /\ (feedPc = "pull" /\ srcState = "unopened") =>
          IF file_size > max_file_size
          THEN /\ ENABLED FeedSizeExceeded
               /\ ~ENABLED (FeedChunk \/ FeedEnd \/ FeedSourceError)
          ELSE /\ ~ENABLED FeedSizeExceeded
               /\ ENABLED (FeedChunk \/ FeedEnd)

C22_Witness ==
    /\ file_size = max_file_size
    /\ srcState = "open"
    /\ srcPos >= 1

\* C23: total_input_bytes changes only in a step in which the feeder wrote
\* a chunk, and then to the feeder's total_bytes; total_output_bytes changes
\* only in a step in which the drainer read a chunk, and then to the
\* drainer's output_bytes: an update leaves the counter it carries None for
\* as it was, in every interleaving of the two.
C23_SingleWriterCounters ==
    [][/\ total_input_bytes' # total_input_bytes =>
            /\ written' # written
            /\ total_input_bytes' = total_bytes'
       /\ total_output_bytes' # total_output_bytes =>
            /\ readChunks' # readChunks
            /\ total_output_bytes' = output_bytes'
       /\ written' # written => total_output_bytes' = total_output_bytes
       /\ readChunks' # readChunks => total_input_bytes' = total_input_bytes
      ]_vars

C23_Witness ==
    /\ hasCallback
    /\ total_input_bytes = len(1) + len(2)
    /\ total_output_bytes = len(1) + len(2)
    /\ feedPc = "progress"
    /\ genPc = "progress"

\* C24: two concurrent calls of process_video_stream share no mutable
\* state: a step changes the child, the source position and the counters
\* of one call at most and leaves those of every other call as they were,
\* and no step changes the shared video_processor instance.
C24_RunsIsolated ==
    [][/\ video_processor' = video_processor
       /\ Len(streams') >= Len(streams)
       /\ \A i \in 1..Len(streams) : \A j \in 1..Len(streams) :
              (i # j /\ streams'[i] # streams[i]) => streams'[j] = streams[j]
      ]_vars

C24_Witness ==
    /\ Len(streams) = 2
    /\ streams[1].child = "running"
    /\ streams[2].child = "running"
    /\ streams[1].output_bytes > 0
    /\ streams[1].total_bytes > 0
    /\ streams[2].output_bytes > streams[1].output_bytes
    /\ streams[2].source > 0

\* C25: right after /encode720, /encode480 or /encode360 was handled, the
\* user's encoding session waits for a video with the resolution 720p, 480p
\* or 360p of the command.
C25_EncodeCommandRecordsSession ==
    handled.by = "encode_resolution_command" =>
        /\ Has(user_encoding_states, handled.user)
        /\ user_encoding_states[handled.user] =
               [resolution |-> <<handled.command[2], "p">>,
                stage |-> "waiting_for_video"]

\* the format each extraction command names
FormatOf(command) ==
    CASE command = <<"extract", "MP3">> -> <<"mp3">>
      [] command = <<"extract", "OGG">> -> <<"ogg">>
      [] command = <<"extract", "WAV">> -> <<"wav">>

\* C26: right after /extractMP3, /extractOGG or /extractWAV was handled,
\* the user's audio session is operation 'extract', stage
\* 'waiting_for_video', with the format mp3, ogg or wav of the command; and
\* right after handle_video_for_audio handled a video for a user whose
\* session is an extraction, an extraction run of that user is in progress
\* whose ffmpeg command has exactly the session's format.
C26_ExtractCommandRecordsFormat ==
    /\ handled.by = "extract_audio_format_command" =>
          /\ Has(user_audio_states, handled.user)
          /\ user_audio_states[handled.user] =
                 [operation |-> "extract",
                  format |-> FormatOf(handled.command),
                  stage |-> "waiting_for_video"]
    /\ (/\ handled.by = "handle_video_for_audio"
        /\ Has(user_audio_states, handled.user)
        /\ user_audio_states[handled.user].operation = "extract") =>
          /\ Len(runs) >= 1
          /\ runs[Len(runs)].user = handled.user
          /\ runs[Len(runs)].op = "extract_audio"
          /\ runs[Len(runs)].pc = "processing"
          /\ runs[Len(runs)].cmd.f = user_audio_states[handled.user].format

C26_Witness ==
    /\ handled.by = "handle_video_for_audio"
    /\ Has(user_audio_states, handled.user)
    /\ user_audio_states[handled.user].operation = "extract"
    /\ user_audio_states[handled.user].format = <<"ogg">>
    /\ Len(runs) = 1
    /\ runs[1].cmd = [codec |-> "libvorbis", f |-> <<"ogg">>]

\* the cancel command of the handler module that starts runs of this kind
CancelOf(op) ==
    CASE op = "encode" -> "cancel_encoding"
      [] op = "extract_audio" -> "cancel_audio_operation"
      [] op \in {"extract_subtitles", "embed_subtitles"} ->
             "cancel_subtitle_operation"

\* C27: right after a cancel command of a user was handled, no pipeline run
\* that the cancelled operation started for that user is still processing
\* (its child running, its result still to be sent).
C27_CancelStopsRun ==
    \A i \in 1..Len(runs) :
        (handled.user = runs[i].user /\ handled.by = CancelOf(runs[i].op))
            => runs[i].pc # "processing"

\* C28: no two pipeline runs of one user are processing at the same time.
C28_OneRunPerUser ==
    \A i \in 1..Len(runs) : \A j \in 1..Len(runs) :
        (i # j /\ runs[i].pc = "processing" /\ runs[j].pc = "processing")
            => runs[i].user # runs[j].user

\* C29: every temporary subtitle file on disk is the subtitle_path of some
\* user's subtitle session.
C29_SubtitleFilesOwned ==
    \A path \in subtitle_files :
        \E u \in DOMAIN user_subtitle_states :
            /\ "subtitle_path" \in DOMAIN user_subtitle_states[u]
            /\ user_subtitle_states[u].subtitle_path = path

\* a step of the run itself is possible: of the feeder, the drainer, the
\* consumer or the child (faults of the network, the disk and the pipes,
\* more diagnostics and the clock apart)
RunCanStep ==
    ENABLED (\/ FeedSizeExceeded \/ FeedChunk \/ FeedEnd \/ FeedProgress
             \/ ProcConsume \/ ProcEmit \/ ProcCloseStdout \/ ProcExitEof
             \/ ProcExitEarly \/ DrainChunk \/ DrainProgress \/ DrainEof
             \/ JoinOk \/ JoinFails \/ WaitExitOk \/ WaitExitFailed
             \/ WaitTimeout \/ ReplyOk)

\* C30: a child that is blocked writing diagnostics to its full stderr
\* before it has finished its standard output does not stall the run: while
\* the run has not ended (its source not having failed), some step of the
\* run is still possible.
C30_StderrFloodNoStall ==
    (stderrBlocked /\ stdoutOpen /\ ~Ended /\ feedPc # "failed")
        => RunCanStep


\* C31: every edit of the progress message by update_progress comes at
\* least update_interval seconds after the edit before it.
C31_EditsThrottled == editGap = None \/ editGap >= update_interval

C33_SpawnFailure ==
    /\ proc = "spawnfailed" <=> failKind = "SpawnError"
    /\ proc = "spawnfailed" =>
          /\ result = Failure(<<"Failed to send processed video",
                                "Video processing failed",
                                "No such file or directory">>)
          /\ srcState = "unopened"
          /\ srcPos = 0
          /\ feedPc = "none"
          /\ written = <<>>
          /\ sinkChunks = <<>>
          /\ ~replyCalled
          /\ tempFile = "removed"

C33_Witness ==
    /\ proc = "spawnfailed"
    /\ Ended
    /\ tempFile = "removed"
    /\ srcLen >= 1
    /\ file_size = chunk_size

\* the sum of the lengths of some chunks
RECURSIVE SumLen(_)
SumLen(chunks) ==
    IF chunks = <<>> THEN 0 ELSE len(Head(chunks)) + SumLen(Tail(chunks))

\* C38: with a progress callback, the input count reported last is the sum
\* of the lengths of the chunks written so far, which are the first chunks
\* of the source in order, and the output count reported last is the sum of
\* the lengths of the chunks forwarded so far; and no step makes either
\* reported count smaller.
C38_ReportedCounts ==
    /\ [](hasCallback =>
            /\ written = [k \in 1..Len(written) |-> k]
            /\ total_input_bytes = SumLen(written)
            /\ total_output_bytes = SumLen(sinkChunks))
    /\ [][/\ total_input_bytes' >= total_input_bytes
          /\ total_output_bytes' >= total_output_bytes]_vars

C38_Witness ==
    /\ hasCallback
    /\ written = <<1, 2>>
    /\ total_input_bytes = chunk_size + chunk_size \div 2
    /\ sinkChunks = <<1, 2>>
    /\ total_output_bytes = chunk_size + chunk_size \div 2
    /\ result.status = "success"

\* the kinds of pipeline run and the session dict of the feature of each
Ops == {"encode", "extract_audio", "extract_subtitles", "embed_subtitles"}

SessionsFor(op) ==
    CASE op = "encode" -> user_encoding_states
      [] op = "extract_audio" -> user_audio_states
      [] op \in {"extract_subtitles", "embed_subtitles"} -> user_subtitle_states

C35_EmbedAfterSubtitle ==
    /\ [](\A u \in DOMAIN user_subtitle_states :
            (/\ user_subtitle_states[u].operation = "add"
             /\ user_subtitle_states[u].stage = "waiting_for_video") =>
                /\ "subtitle_path" \in DOMAIN user_subtitle_states[u]
                /\ user_subtitle_states[u].subtitle_path \in subtitle_files)
    /\ [][/\ (/\ handled'.by = "handle_video_for_subtitle"
              /\ Has(user_subtitle_states, handled'.user)
              /\ user_subtitle_states[handled'.user].stage =
                     "waiting_for_subtitle") =>
                /\ user_subtitle_states' = user_subtitle_states
                /\ runs' = runs
                /\ subtitle_files' = subtitle_files
          /\ (/\ Len(runs') > Len(runs)
              /\ runs'[Len(runs')].op = "embed_subtitles") =>
                LET run == runs'[Len(runs')] IN
                /\ Has(user_subtitle_states, run.user)
                /\ user_subtitle_states[run.user].operation = "add"
                /\ user_subtitle_states[run.user].stage = "waiting_for_video"
                /\ run.cmd.subtitles =
                       user_subtitle_states[run.user].subtitle_path
         ]_vars

C35_Witness ==
    /\ handled.by = "handle_video_for_subtitle"
    /\ Len(runs) = 1
    /\ runs[1].op = "embed_subtitles"
    /\ runs[1].pc = "processing"
    /\ Has(user_subtitle_states, handled.user)
    /\ user_subtitle_states[handled.user] =
           [operation |-> "add", stage |-> "waiting_for_video",
            subtitle_path |-> runs[1].cmd.subtitles]

\* C36: an audio file is acted on exactly when the user's audio session is
\* an addition or replacement in stage 'waiting_for_audio', which holds the
\* video received before; acting on it shows the error 'Feature in
\* development' and removes the session; an audio file handled in any other
\* stage shows no error and leaves the sessions as they were; and neither
\* the audio file nor the video of an addition or replacement starts a
\* pipeline run.
C36_AudioAdditionStub ==
    /\ []((handled.by = "handle_audio_file" /\ handled.error # "") =>
            /\ handled.error = "Feature in development"
            /\ ~Has(user_audio_states, handled.user))
    /\ [](\A i \in 1..Len(runs) : runs[i].op \in Ops)
    /\ [][LET u == handled'.user
              adding == /\ Has(user_audio_states, u)
                        /\ user_audio_states[u].operation \in {"add", "replace"}
          IN
          /\ (handled'.by = "handle_audio_file" /\ handled' # handled) =>
                /\ runs' = runs
                /\ IF adding /\ user_audio_states[u].stage = "waiting_for_audio"
                   THEN /\ handled'.error = "Feature in development"
                        /\ "video_message" \in DOMAIN user_audio_states[u]
                   ELSE /\ handled'.error = ""
                        /\ user_audio_states' = user_audio_states
          /\ (handled'.by = "handle_video_for_audio" /\ adding) =>
                runs' = runs
         ]_vars

C36_Witness ==
    /\ handled.by = "handle_audio_file"
    /\ handled.error = "Feature in development"
    /\ ~Has(user_audio_states, handled.user)
    /\ runs = <<>>

====
